---- MODULE Spec2Model ----
(***************************************************************************)
(* The certificate-video generator: POST /generate of api/index.js and of  *)
(* its second build (src/unnamed/part_000).  One request is followed from  *)
(* the upload middleware through validation, the overlay build, the render *)
(* engine and the download, with the filesystem it touches.  Strings that  *)
(* the code inspects character by character (the name, the filter graph)   *)
(* are sequences of one-character strings; messages are TLA+ strings.      *)
(***************************************************************************)
EXTENDS Naturals, Sequences, FiniteSets, TLC

VARIABLES
  variant,   \* which build is deployed: "api" (src/api/index.js) or "part" (src/unnamed/part_000)
  fs,        \* the paths that exist on disk
  nextId,    \* the uuidv4() calls made so far: every call returns a fresh id
  rq         \* request id -> the request's inputs, position and history

vars == <<variant, fs, nextId, rq>>

-----------------------------------------------------------------------------
(* Bounds of the model *)

\* Longest raw name, in characters.
MaxLen == 3

\* The characters a raw name is drawn from: a letter, a blank, the two
\* characters the sanitizer strips, and the quote the filter string escapes.
Chars == {"a", " ", ":", "\"", "'"}

Names == UNION {[1..n -> Chars] : n \in 0..MaxLen}

\* What the multipart field `photo` carries: nothing, a decodable raster
\* image, or bytes that are no image.
Photos == {"none", "image", "garbage"}

\* The render engine's diagnostic output and the message of its error object.
Stderrs == {"", "diagA", "diagB"}
ErrMessages == {"", "ffmpeg exited with code 1"}

-----------------------------------------------------------------------------
(* Paths: <<root, id, leaf>>; a directory has the leaf "" *)

TEMPLATE_VIDEO == <<"media", 0, "certificate_vid_mu.mp4">>
FONT_FILE == <<"media", 0, "Montserrat-Bold.ttf">>
NoFile == <<"none", 0, "">>

UploadPath(id) == <<"uploads", id, "">>

\* A workspace that is the same directory for every request.
WorkDir_Shared(id) == <<"work", 0, "">>

WorkDir(id) == <<"work", id, "">>
InDir(dir, leaf) == <<dir[1], dir[2], leaf>>

\* fs-extra's remove: the path and everything under it; absent is no error.
Remove(fsys, p) ==
  IF p[3] = "" THEN {f \in fsys : ~(f[1] = p[1] /\ f[2] = p[2])}
  ELSE fsys \ {p}

pathExists(fsys, p) == p \in fsys

-----------------------------------------------------------------------------
(* Name sanitization *)

toUpperCase(s) == [i \in 1..Len(s) |-> IF s[i] = "a" THEN "A" ELSE s[i]]

IsSpace(c) == c = " "

RECURSIVE trimStart(_)
trimStart(s) ==
  IF s # <<>> /\ IsSpace(Head(s)) THEN trimStart(Tail(s)) ELSE s

RECURSIVE trimEnd(_)
trimEnd(s) ==
  IF s # <<>> /\ IsSpace(s[Len(s)]) THEN trimEnd(SubSeq(s, 1, Len(s) - 1)) ELSE s

trim(s) == trimEnd(trimStart(s))

IsStripped(c) == c \in {":", "\""}

KeepChar(c) == ~IsStripped(c)

\* A sanitizer whose pattern is /:/g: the double quote is kept.
sanitizeForDrawText_ColonOnly(s) ==
  IF s = <<>> THEN <<>> ELSE SelectSeq(s, LAMBDA c : c # ":")

sanitizeForDrawText(s) ==
  IF s = <<>> THEN <<>> ELSE SelectSeq(s, KeepChar)

\* const name = sanitizeForDrawText(nameRaw.toUpperCase().trim())
SanitizedName(nameRaw) == sanitizeForDrawText(trim(toUpperCase(nameRaw)))

-----------------------------------------------------------------------------
(* The filter graph string.  It is a sequence of atoms: each character that *)
(* the filter grammar gives a meaning to (' \ : = , ; [ ]) is an atom of    *)
(* its own, as is every character of the name; a run of other characters   *)
(* of the fixed text is one atom.                                          *)

CANVAS_W == "1240"
CANVAS_H == "1748"
overlayX == "320"
overlayY == "125"

\* s.replace(/<from>/g, <to>), to being a sequence of atoms
RECURSIVE ReplaceAll(_, _, _)
ReplaceAll(s, from, to) ==
  IF s = <<>> THEN <<>>
  ELSE (IF Head(s) = from THEN to ELSE <<Head(s)>>) \o ReplaceAll(Tail(s), from, to)

\* path.join(workDir, 'Montserrat-Bold.ttf'), under the default TMPDIR
fontCopyPath(workDir) == <<"/tmp/work/", ToString(workDir[2]), "/Montserrat-Bold.ttf">>

\* fontCopyPath.replace(/\\/g, '/').replace(/:/g, '\\:').replace(/'/g, "\\'")
fontPathEscapedForFilter(workDir) ==
  ReplaceAll(ReplaceAll(ReplaceAll(fontCopyPath(workDir), "\\", <<"/">>),
                        ":", <<"\\", ":">>),
             "'", <<"\\", "'">>)

\* const safeName = name.replace(/'/g, "\\'")
safeName(name) == ReplaceAll(name, "'", <<"\\", "'">>)

drawText(name, workDir) ==
  <<"drawtext", "=", "fontfile", "=", "'">> \o fontPathEscapedForFilter(workDir)
  \o <<"'", ":", "text", "=", "'">> \o safeName(name)
  \o <<"'", ":", "fontcolor", "=", "#274245", ":", "fontsize", "=", "70",
       ":", "x", "=", "620-text_w/2", ":", "y", "=", "820">>

filterComplex(name, workDir) ==
  <<"[", "0", ":", "v", "]", "scale", "=", CANVAS_W, ":", CANVAS_H, ":",
    "force_original_aspect_ratio", "=", "decrease", ",",
    "pad", "=", CANVAS_W, ":", CANVAS_H, ":", "(ow-iw)/2", ":", "(oh-ih)/2", ":",
    "black", ",", "setsar", "=", "1", "[", "base", "]", ";",
    "[", "1", ":", "v", "]", "format", "=", "rgba", "[", "ovr", "]", ";",
    "[", "base", "]", "[", "ovr", "]", "overlay", "=", overlayX, ":", overlayY, ":",
    "format", "=", "auto", "[", "tmp", "]", ";",
    "[", "tmp", "]">>
  \o drawText(name, workDir)
  \o <<",", "format", "=", "yuv420p", "[", "v", "]">>

-----------------------------------------------------------------------------
(* The render engine's reading of a filter graph string: its quoting and    *)
(* escaping rules, applied once to the graph description and once more to   *)
(* each filter's option string.                                             *)

\* The first quote at or after position i, or Len(s) + 1.
RECURSIVE ClosingQuote(_, _)
ClosingQuote(s, i) ==
  IF i > Len(s) \/ s[i] = "'" THEN i ELSE ClosingQuote(s, i + 1)

\* One token from position i up to an unquoted, unescaped atom of term:
\* a backslash makes the next atom literal, a quote makes everything up to
\* the next quote (or the end of the string) literal.
RECURSIVE GetToken(_, _, _, _)
GetToken(s, i, term, out) ==
  IF i > Len(s) \/ s[i] \in term THEN [tok |-> out, next |-> i]
  ELSE IF s[i] = "\\" /\ i < Len(s)
       THEN GetToken(s, i + 2, term, Append(out, s[i + 1]))
  ELSE IF s[i] = "'"
       THEN LET j == ClosingQuote(s, i + 1)
            IN GetToken(s, IF j <= Len(s) THEN j + 1 ELSE j, term,
                        out \o SubSeq(s, i + 1, j - 1))
  ELSE GetToken(s, i + 1, term, Append(out, s[i]))

\* Skips the link labels [..] at position i; 0 when a label is not closed.
RECURSIVE SkipLinks(_, _)
SkipLinks(s, i) ==
  IF i > Len(s) \/ s[i] # "[" THEN i
  ELSE LET t == GetToken(s, i + 1, {"]"}, <<>>)
       IN IF t.next > Len(s) THEN 0 ELSE SkipLinks(s, t.next + 1)

\* The filters of the graph from position i on, each with its name and its
\* option string, quotes and escapes of the first level removed; the
\* description is malformed when a filter is followed by anything but
\* ',' or ';' or the end.
RECURSIVE ParseGraph(_, _, _)
ParseGraph(s, i, filters) ==
  LET start == SkipLinks(s, i)
      name == GetToken(s, start, {"=", ",", ";", "["}, <<>>)
      hasOpts == name.next <= Len(s) /\ s[name.next] = "="
      opts == IF hasOpts THEN GetToken(s, name.next + 1, {"[", "]", ",", ";"}, <<>>)
              ELSE [tok |-> <<>>, next |-> name.next]
      after == SkipLinks(s, opts.next)
      found == Append(filters, [name |-> name.tok, opts |-> opts.tok])
  IN IF start = 0 THEN [ok |-> FALSE, filters |-> filters]
     ELSE IF after = 0 THEN [ok |-> FALSE, filters |-> found]
     ELSE IF after > Len(s) THEN [ok |-> TRUE, filters |-> found]
     ELSE IF s[after] \in {",", ";"} THEN ParseGraph(s, after + 1, found)
     ELSE [ok |-> FALSE, filters |-> found]

\* The key=value pairs of an option string, separated by ':'.
RECURSIVE ParseOptions(_, _, _)
ParseOptions(s, i, pairs) ==
  IF i > Len(s) THEN pairs
  ELSE LET key == GetToken(s, i, {"=", ":"}, <<>>)
           hasValue == key.next <= Len(s) /\ s[key.next] = "="
           value == IF hasValue THEN GetToken(s, key.next + 1, {":"}, <<>>)
                    ELSE [tok |-> <<>>, next |-> key.next]
       IN ParseOptions(s, value.next + 1,
                       Append(pairs, [key |-> key.tok, value |-> value.tok]))

\* What the graph the handler builds is meant to be.
IntendedStages ==
  << <<"scale">>, <<"pad">>, <<"setsar">>, <<"format">>, <<"overlay">>,
     <<"drawtext">>, <<"format">> >>

IntendedDrawTextKeys ==
  << <<"fontfile">>, <<"text">>, <<"fontcolor">>, <<"fontsize">>, <<"x">>, <<"y">> >>

-----------------------------------------------------------------------------
(* Messages *)

MsgPhotoRequired == "Photo is required (field name: photo)"
MsgNameRequired == "Name is required"
MsgTemplateMissing == "Template video missing on server"
MsgFontMissing == "Font file missing on server"
MsgDecode == "Input buffer contains unsupported image format"
DownloadName == "My_Certificate.mp4"

\* The Error the render promise rejects with.
FfmpegErrorMessage(v, stderr, errMessage) ==
  IF v = "api"
  THEN "ffmpeg error: " \o (IF stderr # "" THEN stderr ELSE errMessage)
  ELSE IF stderr # "" THEN stderr
       ELSE IF errMessage # "" THEN errMessage ELSE "ffmpeg error"

\* res.status(500).json({ error: err.message || 'Server error' })
CatchBody(errMessage) == IF errMessage # "" THEN errMessage ELSE "Server error"

JsonResponse(status, error) == [status |-> status, error |-> error, file |-> ""]

\* Express's default error handler: status 500 and a page that is no JSON,
\* so no error member.
DefaultErrorResponse == [status |-> 500, error |-> "", file |-> ""]

\* The errors a middleware in front of the handler passes to next(err):
\* multer's for a file part under another field name, a failed write of the
\* upload, and, in part_000 only, the refusal of the CORS origin check.
MsgUnexpectedField == "Unexpected field"
MsgUploadWrite == "ENOSPC: no space left on device, write"
MsgCors == "Not allowed by CORS"

MiddlewareErrors(v) ==
  IF v = "part" THEN {MsgUnexpectedField, MsgUploadWrite, MsgCors}
  ELSE {MsgUnexpectedField, MsgUploadWrite}

\* What answers next(err): the global error handler of part_000, Express's
\* default error handler in api.
ErrorHandlerResponse(v, message) ==
  IF v = "part" THEN JsonResponse(500, CatchBody(message)) ELSE DefaultErrorResponse
DownloadResponse == [status |-> 200, error |-> "", file |-> DownloadName]

\* The validation branch a request is suspended in, and what it answers.
BranchStatus(pc) ==
  IF pc \in {"rm_photo", "rm_name"} THEN 400 ELSE 500

BranchMessage(pc) ==
  CASE pc = "rm_photo" -> MsgPhotoRequired
    [] pc = "rm_name" -> MsgNameRequired
    [] pc = "rm_template" -> MsgTemplateMissing
    [] OTHER -> MsgFontMissing

-----------------------------------------------------------------------------
(* The request *)

NewRequest(photo, nameRaw) ==
  [ photo |-> photo, nameRaw |-> nameRaw, pc |-> "upload",
    file |-> NoFile, workDir |-> NoFile, name |-> <<>>,
    err |-> "", cause |-> "none", stderr |-> "", errMessage |-> "",
    responses |-> <<>>, rmCalls |-> 0, faults |-> {},
    streamed |-> "no", renders |-> 0 ]

Init ==
  /\ variant \in {"api", "part"}
  /\ fs \in SUBSET {TEMPLATE_VIDEO, FONT_FILE}
  /\ nextId = 1
  /\ \E photo \in Photos, nameRaw \in Names :
       rq = [r \in {1} |-> NewRequest(photo, nameRaw)]

\* upload.single('photo'): the file, when the field is there, is written
\* under uploadsDir with a fresh name, and the handler is called.
MulterUpload(r) ==
  /\ rq[r].pc = "upload"
  /\ IF rq[r].photo = "none"
     THEN /\ rq' = [rq EXCEPT ![r].pc = "ensureDir"]
          /\ UNCHANGED <<fs, nextId>>
     ELSE /\ fs' = fs \cup {UploadPath(nextId)}
          /\ nextId' = nextId + 1
          /\ rq' = [rq EXCEPT ![r].pc = "ensureDir", ![r].file = UploadPath(nextId)]
  /\ UNCHANGED variant

\* A middleware in front of the handler calls next(err): the error handler
\* answers 500, the route handler is never called, no workspace is made and
\* multer leaves no file behind.
MiddlewareError(r) ==
  /\ rq[r].pc = "upload"
  /\ \E message \in MiddlewareErrors(variant) :
       rq' = [rq EXCEPT ![r].err = message,
                        ![r].cause = "middleware",
                        ![r].faults = @ \cup {"middleware"},
                        ![r].responses = Append(@, ErrorHandlerResponse(variant, message)),
                        ![r].pc = "refused"]
  /\ UNCHANGED <<variant, fs, nextId>>

\* Where the handler suspends after workDir exists: the first validation
\* check that fails, or the template check.
\* The name checked before the photo.
AfterEnsureDir_NameFirst(q) ==
  IF SanitizedName(q.nameRaw) = <<>> THEN "rm_name"
  ELSE IF q.file = NoFile THEN "rm_photo"
  ELSE "existsTemplate"

AfterEnsureDir(q) ==
  IF q.file = NoFile THEN "rm_photo"
  ELSE IF SanitizedName(q.nameRaw) = <<>> THEN "rm_name"
  ELSE "existsTemplate"

\* requestId = uuidv4(); await fs.ensureDir(workDir), outside the try.
EnsureDir(r) ==
  /\ rq[r].pc = "ensureDir"
  /\ nextId' = nextId + 1
  /\ \/ /\ fs' = fs \cup {WorkDir(nextId)}
        /\ rq' = [rq EXCEPT ![r].workDir = WorkDir(nextId),
                            ![r].name = SanitizedName(rq[r].nameRaw),
                            ![r].pc = AfterEnsureDir(rq[r])]
     \/ /\ fs' = fs
        /\ rq' = [rq EXCEPT ![r].workDir = WorkDir(nextId),
                            ![r].faults = @ \cup {"ensureDir"},
                            ![r].pc = "rejected"]
  /\ UNCHANGED variant

\* A validation branch: await fs.remove(workDir); return res.status(..).json(..)
\* Either call may throw, and the throw is caught by the handler's catch.
\* A validation branch that answers and leaves the workspace in place.
BranchRemove_RespondOnly(r) ==
  /\ rq[r].pc \in {"rm_photo", "rm_name", "rm_template", "rm_font"}
  /\ rq' = [rq EXCEPT ![r].responses = Append(@, JsonResponse(BranchStatus(rq[r].pc), BranchMessage(rq[r].pc))),
                      ![r].pc = "done"]
  /\ UNCHANGED <<variant, fs, nextId>>

BranchRemove(r) ==
  /\ rq[r].pc \in {"rm_photo", "rm_name", "rm_template", "rm_font"}
  /\ \/ /\ fs' = Remove(fs, rq[r].workDir)
        /\ rq' = [rq EXCEPT ![r].rmCalls = @ + 1,
                            ![r].responses = Append(@, JsonResponse(BranchStatus(rq[r].pc), BranchMessage(rq[r].pc))),
                            ![r].pc = "done"]
     \/ /\ fs' = Remove(fs, rq[r].workDir)
        /\ rq' = [rq EXCEPT ![r].rmCalls = @ + 1,
                            ![r].err = "response write failed",
                            ![r].cause = "branch_json",
                            ![r].faults = @ \cup {"json"},
                            ![r].pc = "catch"]
     \/ /\ fs' = fs
        /\ rq' = [rq EXCEPT ![r].rmCalls = @ + 1,
                            ![r].err = "EPERM: operation not permitted",
                            ![r].cause = "branch_remove",
                            ![r].faults = @ \cup {"remove"},
                            ![r].pc = "catch"]
  /\ UNCHANGED <<variant, nextId>>

\* if (!await fs.pathExists(TEMPLATE_VIDEO)) { await fs.remove(workDir); ... }
ExistsTemplate(r) ==
  /\ rq[r].pc = "existsTemplate"
  /\ rq' = [rq EXCEPT ![r].pc = IF pathExists(fs, TEMPLATE_VIDEO)
                                 THEN "existsFont" ELSE "rm_template"]
  /\ UNCHANGED <<variant, fs, nextId>>

\* if (!await fs.pathExists(FONT_FILE)) { await fs.remove(workDir); ... }
\* The font copied without the check that the font file is there.
ExistsFont_Unchecked(r) ==
  /\ rq[r].pc = "existsFont"
  /\ rq' = [rq EXCEPT ![r].pc = "copyFont"]
  /\ UNCHANGED <<variant, fs, nextId>>

ExistsFont(r) ==
  /\ rq[r].pc = "existsFont"
  /\ rq' = [rq EXCEPT ![r].pc = IF pathExists(fs, FONT_FILE)
                                 THEN "copyFont" ELSE "rm_font"]
  /\ UNCHANGED <<variant, fs, nextId>>

\* The handler's catch is entered with the error thrown.
Throw(q, message, cause) ==
  [q EXCEPT !.err = message, !.cause = cause, !.pc = "catch"]

\* await fs.copy(FONT_FILE, fontCopyPath)
\* The font moved into the workspace instead of copied.
CopyFont_Move(r) ==
  /\ rq[r].pc = "copyFont"
  /\ pathExists(fs, FONT_FILE)
  /\ fs' = (fs \ {FONT_FILE}) \cup {InDir(rq[r].workDir, "Montserrat-Bold.ttf")}
  /\ rq' = [rq EXCEPT ![r].pc = "readFile"]
  /\ UNCHANGED <<variant, nextId>>

CopyFont(r) ==
  /\ rq[r].pc = "copyFont"
  /\ \/ /\ pathExists(fs, FONT_FILE)
        /\ fs' = fs \cup {InDir(rq[r].workDir, "Montserrat-Bold.ttf")}
        /\ rq' = [rq EXCEPT ![r].pc = "readFile"]
     \/ /\ fs' = fs
        /\ rq' = [rq EXCEPT ![r] = Throw([@ EXCEPT !.faults = @ \cup {"copy"}],
                                         "ENOSPC: no space left on device", "copy")]
  /\ UNCHANGED <<variant, nextId>>

\* const inputBuffer = await fs.readFile(uploadedPath)
ReadFile(r) ==
  /\ rq[r].pc = "readFile"
  /\ \/ /\ pathExists(fs, rq[r].file)
        /\ rq' = [rq EXCEPT ![r].pc = "sharp"]
     \/ rq' = [rq EXCEPT ![r] = Throw([@ EXCEPT !.faults = @ \cup {"readFile"}],
                                      "EIO: i/o error, read", "readFile")]
  /\ UNCHANGED <<variant, fs, nextId>>

\* await sharp(inputBuffer).resize(..).composite(..).png().toFile(overlayPng):
\* bytes that are no image make sharp reject; the filter string is then built
\* and the render engine started.
\* The render engine started without the overlay having been written.
Sharp_NoOverlay(r) ==
  /\ rq[r].pc = "sharp"
  /\ rq' = [rq EXCEPT ![r].pc = "ffmpeg", ![r].renders = @ + 1]
  /\ UNCHANGED <<variant, fs, nextId>>

Sharp(r) ==
  /\ rq[r].pc = "sharp"
  /\ IF rq[r].photo = "image"
     THEN /\ fs' = fs \cup {InDir(rq[r].workDir, "overlay_600.png")}
          /\ rq' = [rq EXCEPT ![r].pc = "ffmpeg", ![r].renders = @ + 1]
     ELSE /\ fs' = fs
          /\ rq' = [rq EXCEPT ![r] = Throw(@, MsgDecode, "decode")]
  /\ UNCHANGED <<variant, nextId>>

\* The render promise: 'end' resolves it and res.download starts the stream;
\* 'error' rejects it with the engine's diagnostics, and output.mp4 may have
\* been partly written. renders counts the starts of the engine.
\* A render that is started once more after the engine's first error.
Ffmpeg_Retry(r) ==
  /\ rq[r].pc = "ffmpeg"
  /\ \/ /\ fs' = fs \cup {InDir(rq[r].workDir, "output.mp4")}
        /\ rq' = [rq EXCEPT ![r].responses = Append(@, DownloadResponse),
                            ![r].pc = "streaming"]
     \/ /\ rq[r].renders < 2
        /\ fs' = fs
        /\ rq' = [rq EXCEPT ![r].renders = @ + 1]
     \/ /\ rq[r].renders >= 2
        /\ fs' = fs
        /\ rq' = [rq EXCEPT ![r] = Throw(@, "ffmpeg error", "render")]
  /\ UNCHANGED <<variant, nextId>>

Ffmpeg(r) ==
  /\ rq[r].pc = "ffmpeg"
  /\ \/ /\ fs' = fs \cup {InDir(rq[r].workDir, "output.mp4")}
        /\ rq' = [rq EXCEPT ![r].responses = Append(@, DownloadResponse),
                            ![r].pc = "streaming"]
     \/ \E stderr \in Stderrs, errMessage \in ErrMessages, partial \in BOOLEAN :
          /\ fs' = IF partial THEN fs \cup {InDir(rq[r].workDir, "output.mp4")} ELSE fs
          /\ rq' = [rq EXCEPT ![r] = Throw([@ EXCEPT !.stderr = stderr, !.errMessage = errMessage],
                                           FfmpegErrorMessage(variant, stderr, errMessage),
                                           "render")]
  /\ UNCHANGED <<variant, nextId>>

\* The callback of res.download, run once the stream has finished or failed;
\* it returns to the event loop at each of its awaits.
\*   api:  await fs.remove(workDir); await fs.remove(uploadedPath).catch(() => {})
\*   part: try { await fs.remove(workDir) } catch ..
\*         try { if (await fs.pathExists(uploadedPath)) await fs.remove(uploadedPath) } catch ..
\* The stream ends, the callback is called and suspends in fs.remove(workDir).
StreamFinished(r) ==
  /\ rq[r].pc = "streaming"
  /\ \E streamErr \in BOOLEAN :
       rq' = [rq EXCEPT ![r].streamed = IF streamErr THEN "failed" ELSE "ok",
                        ![r].pc = "cbRemoveWorkDir"]
  /\ UNCHANGED <<variant, fs, nextId>>

\* The removal of the workspace settles. When it throws, the callback of api
\* rejects and ends there; that of part_000 catches and goes on.
CallbackRemoveWorkDir(r) ==
  /\ rq[r].pc = "cbRemoveWorkDir"
  /\ \/ /\ fs' = Remove(fs, rq[r].workDir)
        /\ rq' = [rq EXCEPT ![r].rmCalls = @ + 1,
                            ![r].pc = IF variant = "api" THEN "cbRemoveUpload"
                                      ELSE "cbPathExists"]
     \/ /\ fs' = fs
        /\ rq' = [rq EXCEPT ![r].rmCalls = @ + 1,
                            ![r].faults = @ \cup {"remove"},
                            ![r].pc = IF variant = "api" THEN "done"
                                      ELSE "cbPathExists"]
  /\ UNCHANGED <<variant, nextId>>

\* part_000: if (await fs.pathExists(uploadedPath)) ..
CallbackPathExists(r) ==
  /\ rq[r].pc = "cbPathExists"
  /\ rq' = [rq EXCEPT ![r].pc = IF pathExists(fs, rq[r].file)
                                 THEN "cbRemoveUpload" ELSE "done"]
  /\ UNCHANGED <<variant, fs, nextId>>

\* The removal of the upload settles; its failure is swallowed.
\* A callback that forgets the upload.
CallbackRemoveUpload_Keep(r) ==
  /\ rq[r].pc = "cbRemoveUpload"
  /\ rq' = [rq EXCEPT ![r].pc = "done"]
  /\ UNCHANGED <<variant, fs, nextId>>

CallbackRemoveUpload(r) ==
  /\ rq[r].pc = "cbRemoveUpload"
  /\ \/ /\ fs' = Remove(fs, rq[r].file)
        /\ rq' = [rq EXCEPT ![r].pc = "done"]
     \/ /\ fs' = fs
        /\ rq' = [rq EXCEPT ![r].faults = @ \cup {"remove"}, ![r].pc = "done"]
  /\ UNCHANGED <<variant, nextId>>

\* catch (err) { await fs.remove(workDir).catch(() => {}); res.status(500).json(..) }
\* A catch block that answers without removing the workspace.
CatchCleanup_NoRemove(fsys, q, throws) == fsys

CatchCleanup(fsys, q, throws) ==
  IF throws THEN fsys ELSE Remove(fsys, q.workDir)

\* What the catch block does to the request: one removal invoked, its
\* failure swallowed, then the 500 response.
\* A catch block that invokes no removal.
CatchStep_NoRemove(q, throws) ==
  [q EXCEPT !.responses = Append(@, JsonResponse(500, CatchBody(q.err))),
            !.pc = "done"]

CatchStep(q, throws) ==
  [q EXCEPT !.rmCalls = @ + 1,
            !.faults = @ \cup (IF throws THEN {"remove"} ELSE {}),
            !.responses = Append(@, JsonResponse(500, CatchBody(q.err))),
            !.pc = "done"]

Catch(r) ==
  /\ rq[r].pc = "catch"
  /\ \E throws \in BOOLEAN :
       /\ fs' = CatchCleanup(fs, rq[r], throws)
       /\ rq' = [rq EXCEPT ![r] = CatchStep(@, throws)]
  /\ UNCHANGED <<variant, nextId>>

Next ==
  \/ \E r \in DOMAIN rq : MulterUpload(r)
  \/ \E r \in DOMAIN rq : MiddlewareError(r)
  \/ \E r \in DOMAIN rq : EnsureDir(r)
  \/ \E r \in DOMAIN rq : BranchRemove(r)
  \/ \E r \in DOMAIN rq : ExistsTemplate(r)
  \/ \E r \in DOMAIN rq : ExistsFont(r)
  \/ \E r \in DOMAIN rq : CopyFont(r)
  \/ \E r \in DOMAIN rq : ReadFile(r)
  \/ \E r \in DOMAIN rq : Sharp(r)
  \/ \E r \in DOMAIN rq : Ffmpeg(r)
  \/ \E r \in DOMAIN rq : StreamFinished(r)
  \/ \E r \in DOMAIN rq : CallbackRemoveWorkDir(r)
  \/ \E r \in DOMAIN rq : CallbackPathExists(r)
  \/ \E r \in DOMAIN rq : CallbackRemoveUpload(r)
  \/ \E r \in DOMAIN rq : Catch(r)

Spec == Init /\ [][Next]_vars

\* Two requests in flight at once, their steps interleaved at every await.
Requests == {1, 2}
ConcNames == {<<>>, <<"a">>}

InitConc ==
  /\ variant \in {"api", "part"}
  /\ fs \in SUBSET {TEMPLATE_VIDEO, FONT_FILE}
  /\ nextId = 1
  /\ rq \in [Requests -> {NewRequest(photo, nameRaw) : photo \in Photos, nameRaw \in ConcNames}]

SpecConc == InitConc /\ [][Next]_vars

-----------------------------------------------------------------------------
(* Properties *)

Last(seq) == seq[Len(seq)]

\* What is on disk of a request's workspace: the directory and its contents.
WorkspaceFiles(q) == {f \in fs : f[1] = q.workDir[1] /\ f[2] = q.workDir[2]}

\* The handler has returned and, on the success path, the callback has run.
Completed(q) == q.pc \in {"done", "rejected", "refused"}

\* A removal or a response write of a validation branch threw.
BranchThrew(q) == q.cause \in {"branch_json", "branch_remove"}

\* C1: once a request has completed, whatever its outcome, its workspace
\* directory does not exist (no removal having failed with an I/O error).
C1_WorkspaceGone ==
  \A r \in DOMAIN rq :
    (Completed(rq[r]) /\ "remove" \notin rq[r].faults) => WorkspaceFiles(rq[r]) = {}

\* A render failure whose workspace, with a partly written output, is gone.
C1_Witness ==
  \E r \in DOMAIN rq :
    /\ rq[r].pc = "done" /\ rq[r].cause = "render" /\ rq[r].faults = {}
    /\ rq[r].rmCalls = 1 /\ WorkspaceFiles(rq[r]) = {}

\* C2: after a request that failed, the uploaded photo is not on disk.
C2_UploadRemovedOnFailure ==
  \A r \in DOMAIN rq :
    ( /\ rq[r].pc = "done"
      /\ rq[r].responses # <<>>
      /\ Last(rq[r].responses).status >= 400
      /\ rq[r].file # NoFile )
    => rq[r].file \notin fs

\* C3: on the success path the workspace, the output and the upload are all
\* there while the response streams, and workspace and upload are both gone
\* once the callback has run, whether the stream succeeded or failed (no
\* removal having failed with an I/O error).
C3_RemovedAfterStream ==
  \A r \in DOMAIN rq :
    /\ rq[r].pc \in {"streaming", "cbRemoveWorkDir"} =>
         /\ rq[r].workDir \in fs
         /\ InDir(rq[r].workDir, "output.mp4") \in fs
         /\ rq[r].file \in fs
    /\ (rq[r].pc = "done" /\ rq[r].streamed # "no" /\ "remove" \notin rq[r].faults) =>
         /\ WorkspaceFiles(rq[r]) = {}
         /\ rq[r].file \notin fs

\* A failed stream after which workspace and upload are gone.
C3_Witness ==
  \E r \in DOMAIN rq :
    /\ rq[r].pc = "done" /\ rq[r].streamed = "failed" /\ rq[r].faults = {}
    /\ rq[r].file # NoFile /\ rq[r].file \notin fs
    /\ WorkspaceFiles(rq[r]) = {}

\* C4 as stated: every request that ends has had the removal of its
\* workspace invoked exactly once.
C4_ExactlyOnce ==
  \A r \in DOMAIN rq : rq[r].pc = "done" => rq[r].rmCalls = 1

\* C4 as amended: a request that ends after its workspace was allocated has
\* had the removal invoked once, or twice, and twice exactly when a removal
\* or a response write of a validation branch threw and the catch block
\* removed again; a request whose workspace could not be created, or that a
\* middleware refused before the handler, has had no removal invoked.
C4_OnceOrTwice ==
  \A r \in DOMAIN rq :
    /\ rq[r].pc = "done" =>
         /\ rq[r].rmCalls \in {1, 2}
         /\ rq[r].rmCalls = 2 <=> BranchThrew(rq[r])
    /\ rq[r].pc \in {"rejected", "refused"} => rq[r].rmCalls = 0

\* A validation branch whose removal threw, and the catch block's second one.
C4_Witness ==
  \E r \in DOMAIN rq :
    rq[r].pc = "done" /\ rq[r].cause = "branch_remove" /\ rq[r].rmCalls = 2

\* C5: the checks are made in the order photo, name, template, font, and the
\* first that fails decides the response: 400 for the photo and the name,
\* 500 for the template and the font (no removal or response write of the
\* branch having thrown).
C5_ValidationOutcomes ==
  \A r \in DOMAIN rq :
    LET q == rq[r]
        name == SanitizedName(q.nameRaw)
    IN (q.pc = "done" /\ ~BranchThrew(q)) =>
         /\ q.photo = "none" =>
              q.responses = <<JsonResponse(400, MsgPhotoRequired)>>
         /\ (q.photo # "none" /\ name = <<>>) =>
              q.responses = <<JsonResponse(400, MsgNameRequired)>>
         /\ (q.photo # "none" /\ name # <<>> /\ TEMPLATE_VIDEO \notin fs) =>
              q.responses = <<JsonResponse(500, MsgTemplateMissing)>>
         /\ (q.photo # "none" /\ name # <<>> /\ TEMPLATE_VIDEO \in fs /\ FONT_FILE \notin fs) =>
              q.responses = <<JsonResponse(500, MsgFontMissing)>>

\* A request that fails every check is answered for the photo.
C5_Witness ==
  \E r \in DOMAIN rq :
    /\ rq[r].pc = "done" /\ rq[r].photo = "none"
    /\ SanitizedName(rq[r].nameRaw) = <<>>
    /\ TEMPLATE_VIDEO \notin fs /\ FONT_FILE \notin fs
    /\ rq[r].responses = <<JsonResponse(400, MsgPhotoRequired)>>

\* C6: a photo that cannot be decoded is answered with a 400-class status.
C6_DecodeIsCallerClass ==
  \A r \in DOMAIN rq :
    (rq[r].pc = "done" /\ rq[r].cause = "decode") =>
      Last(rq[r].responses).status \in 400..499

\* C7: the response to a render failure is the same whatever the engine
\* wrote to stderr.
C7_GenericRenderMessage ==
  \A r \in DOMAIN rq :
    (rq[r].pc = "done" /\ rq[r].cause = "render") =>
      \A other \in Stderrs :
        Last(rq[r].responses) =
          JsonResponse(500, CatchBody(FfmpegErrorMessage(variant, other, rq[r].errMessage)))

\* The handler has computed the name.
NameComputed(q) == q.pc \notin {"upload", "ensureDir", "rejected"}

\* C8: the name the handler computes is a fixed point of the sanitization,
\* and has no blank at either end.
C8_SanitizeIdempotent ==
  \A r \in DOMAIN rq :
    NameComputed(rq[r]) =>
      /\ SanitizedName(rq[r].name) = rq[r].name
      /\ rq[r].name # <<>> =>
           ~IsSpace(Head(rq[r].name)) /\ ~IsSpace(Last(rq[r].name))

\* The raw name holds nothing but ':' and '"'.
OnlyStripped(s) == \A i \in 1..Len(s) : IsStripped(s[i])

\* The steps from the font copy to the stream.
InPipeline(q) == q.pc \in {"copyFont", "readFile", "sharp", "ffmpeg", "streaming"}

\* C9 as stated: the computed name holds neither ':' nor '"'; a raw name of
\* only those characters gives the empty name, never reaches the overlay or
\* the render, and the request is answered 400 'Name is required' (no
\* removal or response write of the branch having thrown).
C9_AlwaysNameRequired ==
  \A r \in DOMAIN rq :
    LET q == rq[r] IN
    NameComputed(q) =>
      /\ \A i \in 1..Len(q.name) : ~IsStripped(q.name[i])
      /\ OnlyStripped(q.nameRaw) =>
           /\ q.name = <<>>
           /\ ~InPipeline(q)
           /\ q.streamed = "no"
           /\ q.cause \notin {"copy", "readFile", "decode", "render"}
           /\ (q.pc = "done" /\ ~BranchThrew(q)) =>
                q.responses = <<JsonResponse(400, MsgNameRequired)>>

\* C9 as amended: the computed name holds neither ':' nor '"'; a raw name of
\* only those characters gives the empty name and never reaches the overlay
\* or the render; the request is answered 400 'Name is required' when a
\* photo is attached, and 400 'Photo is required' when none is, the photo
\* being checked first (no removal or response write of the branch having
\* thrown).
C9_StrippedAndRejected ==
  \A r \in DOMAIN rq :
    LET q == rq[r] IN
    NameComputed(q) =>
      /\ \A i \in 1..Len(q.name) : ~IsStripped(q.name[i])
      /\ OnlyStripped(q.nameRaw) =>
           /\ q.name = <<>>
           /\ ~InPipeline(q)
           /\ q.streamed = "no"
           /\ q.cause \notin {"copy", "readFile", "decode", "render"}
           /\ (q.pc = "done" /\ ~BranchThrew(q)) =>
                /\ q.photo # "none" =>
                     q.responses = <<JsonResponse(400, MsgNameRequired)>>
                /\ q.photo = "none" =>
                     q.responses = <<JsonResponse(400, MsgPhotoRequired)>>

\* A name of a colon and a quote, with a photo, answered 'Name is required'.
C9_Witness ==
  \E r \in DOMAIN rq :
    /\ rq[r].pc = "done" /\ rq[r].photo = "image"
    /\ rq[r].nameRaw = <<":", "\"">>
    /\ rq[r].responses = <<JsonResponse(400, MsgNameRequired)>>

\* The render engine has been handed the filter string.
FilterBuilt(q) == q.pc = "ffmpeg"

\* The filter string built for a name reads, by the engine's quoting rules,
\* as the seven intended stages, the drawtext options being the six intended
\* ones and the text being the name.
ReadsAsIntended(name, workDir) ==
  LET g == ParseGraph(filterComplex(name, workDir), 1, <<>>)
      stages == [k \in 1..Len(g.filters) |-> g.filters[k].name]
      options == IF Len(g.filters) >= 6
                 THEN ParseOptions(g.filters[6].opts, 1, <<>>) ELSE <<>>
  IN /\ g.ok
     /\ stages = IntendedStages
     /\ [k \in 1..Len(options) |-> options[k].key] = IntendedDrawTextKeys
     /\ options[2].value = name

\* C10: for every name, the filter string handed to the render engine has
\* exactly the intended stages and options, and its text is the name.
C10_FilterNotBroken ==
  \A r \in DOMAIN rq :
    FilterBuilt(rq[r]) => ReadsAsIntended(rq[r].name, rq[r].workDir)

\* What the escaping does achieve: the same, for the names that hold no
\* single quote.
FilterIntactWithoutQuote ==
  \A r \in DOMAIN rq :
    (FilterBuilt(rq[r]) /\ \A i \in 1..Len(rq[r].name) : rq[r].name[i] # "'")
    => ReadsAsIntended(rq[r].name, rq[r].workDir)

\* The workspace has been allocated.
Allocated(q) == q.pc \notin {"upload", "ensureDir", "rejected", "refused"}

\* What a request in flight still needs on disk at its next step.
NeededFiles(q) ==
  CASE q.pc = "readFile" -> {q.workDir, InDir(q.workDir, "Montserrat-Bold.ttf"), q.file}
    [] q.pc = "sharp" -> {q.workDir, InDir(q.workDir, "Montserrat-Bold.ttf"), q.file}
    [] q.pc = "ffmpeg" -> {q.workDir, InDir(q.workDir, "Montserrat-Bold.ttf"),
                           InDir(q.workDir, "overlay_600.png"), q.file}
    [] q.pc = "streaming" -> {q.workDir, InDir(q.workDir, "output.mp4"), q.file}
    [] q.pc \in {"rm_photo", "rm_name", "rm_template", "rm_font",
                 "existsTemplate", "existsFont", "copyFont"} -> {q.workDir}
    [] OTHER -> {}

\* C11: under every interleaving of two requests, the two workspaces (and
\* the two uploads) are distinct, and whatever the other request has cleaned
\* up, a request in flight still finds its workspace, its font copy, its
\* overlay, its output and its upload.
C11_Isolated ==
  \A r1 \in DOMAIN rq :
    /\ NeededFiles(rq[r1]) \subseteq fs
    /\ \A r2 \in DOMAIN rq \ {r1} :
         /\ (Allocated(rq[r1]) /\ Allocated(rq[r2])) => rq[r1].workDir # rq[r2].workDir
         /\ rq[r1].file # NoFile => rq[r1].file # rq[r2].file

\* The same valid input run twice: one request served and cleaned up while
\* the other still streams from its own workspace.
C11_Witness ==
  /\ DOMAIN rq = Requests
  /\ rq[1].nameRaw = rq[2].nameRaw /\ rq[1].photo = "image" /\ rq[2].photo = "image"
  /\ rq[1].pc = "done" /\ rq[1].streamed = "ok" /\ WorkspaceFiles(rq[1]) = {}
  /\ rq[2].pc = "streaming" /\ InDir(rq[2].workDir, "output.mp4") \in fs

\* The state of the request's state machine. Rendered is passed through
\* within the step that ends the render and starts the stream.
Stage(q) ==
  CASE q.pc \in {"upload", "ensureDir"} -> "Created"
    [] q.pc \in {"existsTemplate", "existsFont"} -> "WorkspaceAllocated"
    [] q.pc \in {"copyFont", "readFile", "sharp"} -> "Validated"
    [] q.pc = "ffmpeg" -> "OverlayBuilt"
    [] q.pc \in {"streaming", "cbRemoveWorkDir", "cbPathExists", "cbRemoveUpload"} -> "Streaming"
    [] q.pc = "done" /\ q.streamed = "ok" -> "Done"
    [] OTHER -> "Failed"

\* The moves of the state machine, Failed aside. A request whose first
\* check fails goes from Created through WorkspaceAllocated to Failed in
\* one step.
StageOrder ==
  { <<"Created", "WorkspaceAllocated">>, <<"WorkspaceAllocated", "Validated">>,
    <<"Validated", "OverlayBuilt">>, <<"OverlayBuilt", "Streaming">>,
    <<"Streaming", "Done">> }

StageStep(q, qn, fsys, fsn) ==
  /\ \/ Stage(qn) = Stage(q)
     \/ <<Stage(q), Stage(qn)>> \in StageOrder
     \/ Stage(qn) = "Failed" /\ Stage(q) # "Done"
  /\ qn.pc = "ffmpeg" => InDir(qn.workDir, "overlay_600.png") \in fsn
  /\ (qn.pc = "streaming" /\ q.pc # "streaming") =>
       /\ q.pc = "ffmpeg" /\ qn.cause = "none"
       /\ InDir(qn.workDir, "output.mp4") \in fsn
  /\ Stage(q) = "Failed" =>
       /\ Stage(qn) = "Failed"
       /\ \A f \in fsn \ fsys : ~(f[1] = qn.workDir[1] /\ f[2] = qn.workDir[2])
       /\ \A k \in (Len(q.responses) + 1)..Len(qn.responses) :
            qn.responses[k] # DownloadResponse

\* C12: a request moves through Created, WorkspaceAllocated, Validated,
\* OverlayBuilt, Rendered, Streaming, Done in that order, or to Failed, which
\* it never leaves; the render starts only with the overlay written, the
\* stream only after the engine ended cleanly, and once the request has
\* failed no step writes into its workspace or starts a stream.
C12_StateMachine ==
  [][\A r \in DOMAIN rq : StageStep(rq[r], rq'[r], fs, fs')]_vars

\* A request that went all the way to Done.
C12_Witness ==
  \E r \in DOMAIN rq :
    /\ Stage(rq[r]) = "Done" /\ rq[r].faults = {}
    /\ rq[r].responses = <<DownloadResponse>>

\* The font copy, the read of the photo, the overlay build or the render
\* has been started for the request.
ExpensiveStarted(q) ==
  \/ InPipeline(q)
  \/ q.cause \in {"copy", "readFile", "decode", "render"}
  \/ q.streamed # "no"
  \/ \E leaf \in {"Montserrat-Bold.ttf", "overlay_600.png", "output.mp4"} :
       InDir(q.workDir, leaf) \in fs

\* C13: the font copy, the read of the photo, the overlay build and the
\* render are started only for a request with a photo, a name that is not
\* empty after sanitization, and the template video and the font file there.
C13_ValidatedFirst ==
  \A r \in DOMAIN rq :
    ExpensiveStarted(rq[r]) =>
      /\ rq[r].photo # "none" /\ rq[r].file # NoFile
      /\ SanitizedName(rq[r].nameRaw) # <<>>
      /\ TEMPLATE_VIDEO \in fs
      /\ FONT_FILE \in fs

\* A valid request about to build its overlay.
C13_Witness ==
  \E r \in DOMAIN rq :
    /\ rq[r].pc = "sharp" /\ rq[r].photo = "image" /\ rq[r].name # <<>>
    /\ InDir(rq[r].workDir, "Montserrat-Bold.ttf") \in fs
    /\ TEMPLATE_VIDEO \in fs /\ FONT_FILE \in fs

\* The step has sent an error response for the request.
ErrorResponseSent(q, qn) ==
  /\ Len(qn.responses) > Len(q.responses)
  /\ Last(qn.responses).status >= 400

\* C14: when an error response (400 or 500) is sent, the request's workspace
\* directory has been removed (no removal having failed with an I/O error).
C14_CleanupBeforeError ==
  [][\A r \in DOMAIN rq :
       (ErrorResponseSent(rq[r], rq'[r]) /\ "remove" \notin rq'[r].faults) =>
         \A f \in fs' : ~(f[1] = rq'[r].workDir[1] /\ f[2] = rq'[r].workDir[2])]_vars

\* An undecodable photo answered with 500 after the workspace, holding the
\* copied font, was removed.
C14_Witness ==
  \E r \in DOMAIN rq :
    /\ rq[r].pc = "done" /\ rq[r].cause = "decode" /\ rq[r].faults = {}
    /\ rq[r].responses = <<JsonResponse(500, MsgDecode)>>
    /\ WorkspaceFiles(rq[r]) = {}

\* C15: the render engine is started at most once for a request, and after
\* it has reported an error the request is failed: the catch is entered, no
\* stream of an output file is begun, and the response is a 500.
C15_RenderOnceNoRetry ==
  \A r \in DOMAIN rq :
    /\ rq[r].renders <= 1
    /\ rq[r].renders = 1 <=> (rq[r].pc \in {"ffmpeg", "streaming"} \/ rq[r].cause = "render"
                              \/ rq[r].streamed # "no")
    /\ rq[r].cause = "render" =>
         /\ rq[r].pc \in {"catch", "done"}
         /\ rq[r].streamed = "no"
         /\ \A k \in 1..Len(rq[r].responses) : rq[r].responses[k] # DownloadResponse
         /\ rq[r].pc = "done" =>
              rq[r].responses = <<JsonResponse(500, CatchBody(rq[r].err))>>

\* The engine ran once, reported an error with diagnostics, and the request
\* was answered with one 500.
C15_Witness ==
  \E r \in DOMAIN rq :
    /\ rq[r].pc = "done" /\ rq[r].cause = "render" /\ rq[r].renders = 1
    /\ rq[r].stderr # "" /\ Len(rq[r].responses) = 1
    /\ Last(rq[r].responses).status = 500

\* C16: every request that has completed has received exactly one response.
C16_ExactlyOneResponse ==
  \A r \in DOMAIN rq : Completed(rq[r]) => Len(rq[r].responses) = 1

\* The file is the workspace directory of the request, or inside it, or the
\* request's uploaded photo.
OwnFile(q, f) ==
  \/ q.workDir # NoFile /\ f[1] = q.workDir[1] /\ f[2] = q.workDir[2]
  \/ q.file # NoFile /\ f = q.file

\* C17: no step creates or removes the template video or the font file, and
\* a file removed by a step is the workspace, or the upload, of the request
\* that took the step.
C17_StaticAssetsUntouched ==
  [][/\ (TEMPLATE_VIDEO \in fs') <=> (TEMPLATE_VIDEO \in fs)
     /\ (FONT_FILE \in fs') <=> (FONT_FILE \in fs)
     /\ \A f \in fs \ fs' :
          \E r \in DOMAIN rq : rq'[r] # rq[r] /\ OwnFile(rq[r], f)]_vars

\* One request served and cleaned up while the other, about to render, still
\* has its workspace and upload, and both static assets are in place.
C17_Witness ==
  \E r1 \in DOMAIN rq, r2 \in DOMAIN rq :
    /\ r1 # r2
    /\ rq[r1].pc = "done" /\ rq[r1].streamed = "ok" /\ rq[r1].faults = {}
    /\ WorkspaceFiles(rq[r1]) = {} /\ rq[r1].file \notin fs
    /\ rq[r2].pc = "ffmpeg" /\ NeededFiles(rq[r2]) \subseteq fs
    /\ TEMPLATE_VIDEO \in fs /\ FONT_FILE \in fs

====
